---- MODULE Spec2Model ----
(***************************************************************************)
(* Verification model of devdocs-indexer: the recursive URL discovery of   *)
(* src/scrapers/base.py (normalize_url, should_skip,                       *)
(* extract_links_from_page, crawl_recursively, filter_urls) driven by the  *)
(* per-framework discover_urls, and the chunker of src/utils/chunker.py.   *)
(*                                                                         *)
(* Strings are sequences of one-character strings, so that prefix,         *)
(* substring, split and strip are computed the way Python computes them.   *)
(* A text with line breaks is the sequence of its lines (str.split("\n")), *)
(* which Python maps one to one to the text ("\n".join).                   *)
(***************************************************************************)
EXTENDS Integers, Sequences, FiniteSets, TLC

(***************************************************************************)
(* Bounds of the model.                                                    *)
(***************************************************************************)
MaxDepth == 2        \* max_depth ranges over 0..MaxDepth
MaxSeeds == 2        \* start_urls has 1..MaxSeeds different entries
MaxHrefs == 2        \* a page holds at most MaxHrefs <a href> tags
MaxUrlLen == 3       \* length of the variable tail of a URL given to normalize_url
MaxLines == 4        \* lines of a markdown document
MaxChunkSize == 5    \* chunk_size ranges over MinChunkSize..MaxChunkSize

(***************************************************************************)
(* Python str and list operations on sequences.                            *)
(*                                                                         *)
(* Once(F, x) is F(x) with x evaluated a single time.  TLC evaluates the   *)
(* argument of an operator each time the operator uses it when it computes *)
(* ENABLED; the operators below bind their arguments to values first.      *)
(***************************************************************************)
Once(F(_), x) == CHOOSE r \in {F(v) : v \in {x}} : TRUE
Once2(F(_, _), x, y) == CHOOSE r \in {F(v, w) : v \in {x}, w \in {y}} : TRUE

Range(s) == {s[i] : i \in 1..Len(s)}

Min(I0) == LET F(I) == CHOOSE i \in I : \A j \in I : i <= j IN Once(F, I0)
Max(I0) == LET F(I) == CHOOSE i \in I : \A j \in I : i >= j IN Once(F, I0)

\* the entries of a list at the positions I, in order
Pick(s0, I0) ==
    LET F(s, I) ==
          [k \in 1..Cardinality(I) |->
              s[CHOOSE i \in I : Cardinality({j \in I : j < i}) = k - 1]]
    IN Once2(F, s0, I0)

\* the elements of a list that are not in a set, kept in order
Without(s0, S0) ==
    LET F(s, S) == Pick(s, {i \in 1..Len(s) : s[i] \notin S}) IN Once2(F, s0, S0)

\* the first occurrence of every element of a list, kept in order
Dedup(s0) ==
    LET F(s) == Pick(s, {i \in 1..Len(s) : \A j \in 1..(i - 1) : s[j] # s[i]})
    IN Once(F, s0)

\* list(a_set): the elements of the set once each, in an order Python does not fix
Listings(S0) ==
    LET F(S) == {s \in [1..Cardinality(S) -> S] : Range(s) = S} IN Once(F, S0)

\* s.startswith(p)
StartsWith(s0, p0) ==
    LET F(s, p) == Len(p) <= Len(s) /\ SubSeq(s, 1, Len(p)) = p IN Once2(F, s0, p0)

\* p in s
Contains(s0, p0) ==
    LET F(s, p) == \E i \in 0..(Len(s) - Len(p)) : SubSeq(s, i + 1, i + Len(p)) = p
    IN Once2(F, s0, p0)

\* s.endswith(p)
EndsWith(s0, p0) ==
    LET F(s, p) == Len(p) <= Len(s) /\ SubSeq(s, Len(s) - Len(p) + 1, Len(s)) = p
    IN Once2(F, s0, p0)

\* the positions of the character c in s
Positions(s0, c) == LET F(s) == {i \in 1..Len(s) : s[i] = c} IN Once(F, s0)

\* s.find(c) + 1 for a single character c: 0 when c does not occur
Find(s0, c) ==
    LET F(I) == IF I = {} THEN 0 ELSE Min(I) IN Once(F, Positions(s0, c))

\* s.split(c)[0]
Before(s0, c) ==
    LET F(s, i) == IF i = 0 THEN s ELSE SubSeq(s, 1, i - 1) IN Once2(F, s0, Find(s0, c))

\* the text after the first c (empty when c does not occur)
After(s0, c) ==
    LET F(s, i) == IF i = 0 THEN <<>> ELSE SubSeq(s, i + 1, Len(s))
    IN Once2(F, s0, Find(s0, c))

\* s.rstrip(c)
RStrip(s0, c) ==
    LET F(s) == SubSeq(s, 1, Max({0} \cup {i \in 1..Len(s) : s[i] # c})) IN Once(F, s0)

UpperToLower == [x \in {"P", "D", "F", "A"} |->
                    CASE x = "P" -> "p" [] x = "D" -> "d" [] x = "F" -> "f" [] x = "A" -> "a"]

\* s.lower()
Lower(s0) ==
    LET F(s) == [i \in 1..Len(s) |->
                    IF s[i] \in DOMAIN UpperToLower THEN UpperToLower[s[i]] ELSE s[i]]
    IN Once(F, s0)

\* s.split(c): the list of the fields between the occurrences of c
Split(s0, c) ==
    LET F(s, cuts) ==
          [k \in 1..(Len(cuts) + 1) |->
              SubSeq(s, IF k = 1 THEN 1 ELSE cuts[k - 1] + 1,
                        IF k = Len(cuts) + 1 THEN Len(s) ELSE cuts[k] - 1)]
    IN Once2(F, s0, Pick([i \in 1..Len(s0) |-> i], Positions(s0, c)))

\* c.join(parts)
RECURSIVE Join(_, _)
Join(parts0, c) ==
    LET F(parts) == IF parts = <<>> THEN <<>>
                    ELSE IF Len(parts) = 1 THEN parts[1]
                    ELSE parts[1] \o <<c>> \o Join(Tail(parts), c)
    IN Once(F, parts0)

(***************************************************************************)
(* urllib.parse as normalize_url uses it.  URLs of the model have no       *)
(* query ("?") and no parameters (";").                                    *)
(***************************************************************************)
Letters == {"h", "t", "p", "s", "x", "y", "a", "b", "c", "d", "f", "m", "P", "D", "F", "A"}

\* position of the ":" that ends a scheme, 0 when the text has no scheme
SchemeEnd(s0) ==
    LET F(s, i) == IF i > 1 /\ s[1] \in Letters
                      /\ \A j \in 1..(i - 1) : s[j] \in Letters \cup {"."}
                   THEN i ELSE 0
    IN Once2(F, s0, Find(s0, ":"))

\* urlparse(s).scheme
UrlScheme(s0) ==
    LET F(s, i) == IF i = 0 THEN <<>> ELSE Lower(SubSeq(s, 1, i - 1))
    IN Once2(F, s0, SchemeEnd(s0))

\* the text after the scheme and its ":"
AfterScheme(s0) ==
    LET F(s, i) == IF i = 0 THEN s ELSE SubSeq(s, i + 1, Len(s))
    IN Once2(F, s0, SchemeEnd(s0))

\* length of the longest prefix without "/" and "#"
HostLen(s0) ==
    LET F(s) == Min({Len(s) + 1} \cup {i \in 1..Len(s) : s[i] \in {"/", "#"}}) - 1
    IN Once(F, s0)

\* urlparse(s).netloc
UrlNetloc(s0) ==
    LET F(r) == IF StartsWith(r, <<"/", "/">>)
                THEN SubSeq(r, 3, 2 + HostLen(SubSeq(r, 3, Len(r))))
                ELSE <<>>
    IN Once(F, AfterScheme(s0))

\* urlparse(s).path
UrlPath(s0) ==
    LET F(r) == IF StartsWith(r, <<"/", "/">>)
                THEN SubSeq(r, 3 + HostLen(SubSeq(r, 3, Len(r))), Len(r))
                ELSE r
    IN Before(Once(F, AfterScheme(s0)), "#")

\* urlparse(s).fragment
UrlFragment(s) == After(s, "#")

\* urlunparse of (scheme, netloc, path, fragment)
UrlUnparse(scheme0, netloc0, path0, fragment0) ==
    LET F(loc, fragment) ==
          IF fragment # <<>> THEN loc \o <<"#">> \o fragment ELSE loc
        G(scheme, rest) ==
          IF scheme # <<>> THEN scheme \o <<":">> \o rest ELSE rest
        H(netloc, path) ==
          IF netloc = <<>> THEN path
          ELSE IF path # <<>> /\ path[1] # "/" THEN <<"/", "/">> \o netloc \o <<"/">> \o path
          ELSE <<"/", "/">> \o netloc \o path
    IN Once2(F, Once2(G, scheme0, Once2(H, netloc0, path0)), fragment0)

\* the dot-segment resolution loop of urljoin
RECURSIVE ResolveDots(_, _)
ResolveDots(segments0, resolved0) ==
    LET F(segments, resolved) ==
          IF segments = <<>> THEN resolved
          ELSE IF segments[1] = <<".", ".">>
          THEN ResolveDots(Tail(segments),
                           IF resolved = <<>> THEN <<>>
                           ELSE SubSeq(resolved, 1, Len(resolved) - 1))
          ELSE IF segments[1] = <<".">> THEN ResolveDots(Tail(segments), resolved)
          ELSE ResolveDots(Tail(segments), Append(resolved, segments[1]))
    IN Once2(F, segments0, resolved0)

\* urljoin: the segments of the base path without the last one, unless that is empty
BaseParts(bpath) ==
    LET F(parts) == IF parts[Len(parts)] # <<>> THEN SubSeq(parts, 1, Len(parts) - 1)
                    ELSE parts
    IN Once(F, Split(bpath, "/"))

\* urljoin: the segments of base and reference, the empty ones in the middle removed
JoinedSegments(bpath, path0) ==
    LET F(path, joined) ==
          IF path[1] = "/" THEN Split(path, "/")
          ELSE IF Len(joined) <= 2 THEN joined
          ELSE <<joined[1]>>
               \o Without(SubSeq(joined, 2, Len(joined) - 1), {<<>>})
               \o <<joined[Len(joined)]>>
    IN Once2(F, path0, BaseParts(bpath) \o Split(path0, "/"))

\* urljoin: the path of the result
ResolvedPath(segments0) ==
    LET F(segments, resolved) ==
          IF segments[Len(segments)] \in {<<".">>, <<".", ".">>}
          THEN Join(Append(resolved, <<>>), "/")
          ELSE Join(resolved, "/")
        G(joined) == IF joined = <<>> THEN <<"/">> ELSE joined
    IN Once(G, Once2(F, segments0, ResolveDots(segments0, <<>>)))

\* urljoin(base, url) for an absolute base
UrlJoin(base0, url0) ==
    LET F(base, url) ==
          IF base = <<>> THEN url
          ELSE IF url = <<>> THEN base
          ELSE IF SchemeEnd(url) # 0 /\ UrlScheme(url) # UrlScheme(base) THEN url
          ELSE IF UrlPath(url) = <<>>
          THEN UrlUnparse(UrlScheme(base), UrlNetloc(base), UrlPath(base), UrlFragment(url))
          ELSE UrlUnparse(UrlScheme(base), UrlNetloc(base),
                          ResolvedPath(JoinedSegments(UrlPath(base), UrlPath(url))),
                          UrlFragment(url))
    IN Once2(F, base0, url0)

(***************************************************************************)
(* The site descriptor (config) of the modelled scraper.                   *)
(***************************************************************************)
base_url == <<"h", "t", "t", "p", ":", "/", "/", "x">>

skip_patterns == << <<"/", "d">> >>

common_skips == <<
    <<"#">>,
    <<"j", "a", "v", "a", "s", "c", "r", "i", "p", "t", ":">>,
    <<"m", "a", "i", "l", "t", "o", ":">>,
    <<".", "p", "d", "f">>,
    <<".", "z", "i", "p">>,
    <<".", "p", "n", "g">>,
    <<".", "j", "p", "g">>,
    <<".", "j", "p", "e", "g">>,
    <<".", "g", "i", "f">>,
    <<".", "s", "v", "g">> >>

HttpPrefix == <<"h", "t", "t", "p">>

(***************************************************************************)
(* BaseScraper.should_skip, with the visited set it reads as a parameter.  *)
(***************************************************************************)
\* a filter whose common skips lack the "#" entry
should_skip_keeps_fragments(url0, visited) ==
    LET F(u, lower) ==
          \/ u \in visited
          \/ ~StartsWith(u, base_url)
          \/ \E i \in 1..Len(skip_patterns) : Contains(u, skip_patterns[i])
          \/ \E i \in 2..Len(common_skips) : Contains(lower, common_skips[i])
    IN Once2(F, url0, Lower(url0))

\* a filter that tests the common skips at the end of the URL only
should_skip_by_suffix(url0, visited) ==
    LET F(u, lower) ==
          \/ u \in visited
          \/ ~StartsWith(u, base_url)
          \/ \E i \in 1..Len(skip_patterns) : Contains(u, skip_patterns[i])
          \/ \E i \in 1..Len(common_skips) : EndsWith(lower, common_skips[i])
    IN Once2(F, url0, Lower(url0))

should_skip(url0, visited) ==
    LET F(u, lower) ==
          \/ u \in visited
          \/ ~StartsWith(u, base_url)
          \/ \E i \in 1..Len(skip_patterns) : Contains(u, skip_patterns[i])
          \/ \E i \in 1..Len(common_skips) : Contains(lower, common_skips[i])
    IN Once2(F, url0, Lower(url0))

(***************************************************************************)
(* BaseScraper.normalize_url; base = <<>> stands for None.                 *)
(***************************************************************************)
\* s with one trailing c removed, if it has one
RStripOne(s0, c) ==
    LET F(s) == IF s # <<>> /\ s[Len(s)] = c THEN SubSeq(s, 1, Len(s) - 1) ELSE s
    IN Once(F, s0)

\* a normalization that removes a single trailing slash
normalize_url_one_slash(url0, base0) ==
    LET F(u, b) ==
          IF StartsWith(u, <<"/">>)
          THEN UrlScheme(b) \o <<":", "/", "/">> \o UrlNetloc(b) \o u
          ELSE IF ~StartsWith(u, HttpPrefix)
          THEN UrlJoin(b, u)
          ELSE RStripOne(Before(u, "#"), "/")
    IN Once2(F, url0, IF base0 = <<>> THEN base_url ELSE base0)

normalize_url(url0, base0) ==
    LET F(u, b) ==
          IF StartsWith(u, <<"/">>)
          THEN UrlScheme(b) \o <<":", "/", "/">> \o UrlNetloc(b) \o u
          ELSE IF ~StartsWith(u, HttpPrefix)
          THEN UrlJoin(b, u)
          ELSE RStrip(Before(u, "#"), "/")
    IN Once2(F, url0, IF base0 = <<>> THEN base_url ELSE base0)

(***************************************************************************)
(* State.  The scraper object and one discover_urls run; the inputs and    *)
(* results of single calls of normalize_url and should_skip; one chunker   *)
(* call.                                                                   *)
(***************************************************************************)
VARIABLES
    visited_urls,   \* BaseScraper.visited_urls
    web,            \* the site: what fetching each URL gives (the environment)
    start_urls,     \* config["start_urls"]
    max_depth,      \* the max_depth the scraper passes to crawl_recursively
    pc,             \* position of discover_urls / crawl_recursively
    seed,           \* index of the start URL the for loop of discover_urls is at
    all_urls,       \* crawl_recursively: all_urls
    to_visit,       \* crawl_recursively: to_visit, a list of <<url, depth>>
    call_fetches,   \* extract_links_from_page calls of the current crawl_recursively call
    run_fetches,    \* extract_links_from_page calls of the whole discover_urls run
    section_urls,   \* the list the last crawl_recursively call returned
    discovered,     \* discover_urls: all_urls
    urls,           \* the list discover_urls returns
    url,            \* argument of normalize_url / should_skip
    base,           \* argument of normalize_url
    once,           \* normalize_url(url, base)
    twice,          \* normalize_url(once, base)
    skipped,        \* should_skip(url)
    upc,            \* which call has been made on url
    filter_arg,     \* argument of filter_urls
    filtered,       \* the list filter_urls returned
    markdown,       \* argument of the chunker call
    metadata,       \* argument of the chunker call
    preserve_code_blocks, \* argument of chunk_markdown
    chunk_size,     \* SmartChunker.chunk_size
    overlap,        \* SmartChunker.overlap
    encoding_model, \* the tiktoken encoding SmartChunker.encoding was built from
    chunks,         \* the list the chunker call returned
    cpc,            \* which chunker call has been made
    md_files,       \* Embedder.embed: the markdown files of the run, as [url, content]
    md_done,        \* Embedder.embed: how many files have been processed
    all_chunks,     \* Embedder.embed: all_chunks, later the chunks.json of the framework
    has_embedding,  \* for every chunk of all_chunks: "embedding" in chunk
    vectors,        \* Indexer._index_framework: vectors
    upserted,       \* Indexer._index_framework: how many vectors went through upsert
    namespace,      \* the namespace of the framework in the index: id -> content
    ipc,            \* the stage of the embed and index run
    frameworks,     \* Crawler.frameworks
    opc,            \* where Crawler.crawl is: running, returned, or left by an exception
    fw_done,        \* Crawler.crawl: how many turns of the discovery loop are done
    dl_done,        \* Crawler.crawl: how many turns of the download loop are done
    crawl_urls_of,  \* Crawler.crawl: all_urls, the pairs <<framework, url records>> in key order
    stats,          \* Crawler.stats
    stage_events,   \* what main and Crawler.crawl have started and finished, in order
    downloader,     \* which function downloads: Crawler._download_urls or crawl_urls
    max_concurrent, \* the value the semaphore was made with
    semaphore,      \* the value of the asyncio.Semaphore
    task,           \* for every URL, where its download_one or crawl_one is
    result,         \* for every URL, the status recorded for it
    use_playwright, \* argument of fetch_url
    max_retries,    \* argument of fetch_url
    retry_count,    \* fetch_with_requests: retry_count
    fpc,            \* where fetch_url is
    attempts,       \* the fetches fetch_url has made, as <<fetcher, outcome>>
    requests_end,   \* how fetch_with_requests ended: "ok", or the exception it raised
    md_text,        \* argument of clean_markdown: the markdown markdownify gave
    md_cleaned,     \* the text clean_markdown returned
    mpc             \* whether clean_markdown has been called

crawlVars == <<web, start_urls, max_depth, pc, seed, all_urls, to_visit, call_fetches,
               run_fetches, section_urls, discovered, urls>>
urlVars == <<url, base, once, twice, skipped, upc, filter_arg, filtered>>
chunkVars == <<markdown, metadata, preserve_code_blocks, chunk_size, overlap, encoding_model,
               chunks, cpc>>
indexVars == <<md_files, md_done, all_chunks, has_embedding, vectors, upserted, namespace, ipc>>
orchVars == <<frameworks, opc, fw_done, dl_done, crawl_urls_of, stats, stage_events>>
dlVars == <<downloader, max_concurrent, semaphore, task, result>>
fetchVars == <<use_playwright, max_retries, retry_count, fpc, attempts, requests_end>>
cleanVars == <<md_text, md_cleaned, mpc>>
restVars == <<indexVars, orchVars, dlVars, fetchVars, cleanVars>>
\* what the actions of one part of the program leave unchanged
notIndexVars ==
    <<visited_urls, crawlVars, urlVars, chunkVars, orchVars, dlVars, fetchVars, cleanVars>>
notOrchVars ==
    <<visited_urls, crawlVars, urlVars, chunkVars, indexVars, dlVars, fetchVars, cleanVars>>
notDownloadVars ==
    <<visited_urls, crawlVars, urlVars, chunkVars, indexVars, orchVars, fetchVars, cleanVars>>
notFetchVars ==
    <<visited_urls, crawlVars, urlVars, chunkVars, indexVars, orchVars, dlVars, cleanVars>>
notCleanVars == <<visited_urls, crawlVars, urlVars, chunkVars, indexVars, orchVars, dlVars,
                  fetchVars>>
vars == <<visited_urls, crawlVars, urlVars, chunkVars, restVars>>

\* SmartChunker.__init__: the default of encoding_model, which is also the encoding of the
\* tokenizer SentenceSplitter takes when it is given none
DefaultEncoding == "cl100k_base"

\* the parts of the state a specification does not use
CrawlIdle ==
    /\ web = <<>> /\ start_urls = <<>> /\ max_depth = 0 /\ pc = "idle" /\ seed = 0
    /\ all_urls = {} /\ to_visit = <<>> /\ call_fetches = <<>> /\ run_fetches = <<>>
    /\ section_urls = <<>> /\ discovered = {} /\ urls = <<>>

UrlIdle ==
    /\ url = <<>> /\ base = <<>> /\ once = <<>> /\ twice = <<>> /\ skipped = FALSE
    /\ upc = "idle" /\ filter_arg = <<>> /\ filtered = <<>>

IndexIdle ==
    /\ md_files = <<>> /\ md_done = 0 /\ all_chunks = <<>> /\ has_embedding = <<>>
    /\ vectors = <<>> /\ upserted = 0 /\ namespace = <<>> /\ ipc = "idle"

OrchIdle ==
    /\ frameworks = <<>> /\ opc = "idle" /\ fw_done = 0 /\ dl_done = 0
    /\ crawl_urls_of = <<>> /\ stats = <<>> /\ stage_events = <<>>

DownloadIdle ==
    /\ downloader = "" /\ max_concurrent = 0 /\ semaphore = 0 /\ task = <<>> /\ result = <<>>

FetchIdle ==
    /\ use_playwright = FALSE /\ max_retries = 0 /\ retry_count = 0 /\ fpc = "idle"
    /\ attempts = <<>> /\ requests_end = ""

CleanIdle == md_text = <<>> /\ md_cleaned = <<>> /\ mpc = "idle"

RestIdle == IndexIdle /\ OrchIdle /\ DownloadIdle /\ FetchIdle /\ CleanIdle

ChunkIdle ==
    /\ markdown = <<>> /\ metadata = <<>> /\ preserve_code_blocks = TRUE
    /\ chunk_size = 0 /\ overlap = 0 /\ encoding_model = DefaultEncoding
    /\ chunks = <<>> /\ cpc = "idle"

(***************************************************************************)
(* Single calls of normalize_url and should_skip on bounded inputs.        *)
(***************************************************************************)
Origin == base_url
OtherOrigin == <<"h", "t", "t", "p", ":", "/", "/", "y">>

RECURSIVE SeqsUpTo(_, _)
\* the sequences over S of length at most n
SeqsUpTo(S, n) ==
    IF n = 0 THEN {<<>>}
    ELSE LET shorter == SeqsUpTo(S, n - 1)
         IN shorter \cup {Append(t, c) : t \in shorter, c \in S}

UrlTails == SeqsUpTo({"/", "a", "#"}, MaxUrlLen)

\* paths that hold a skip pattern or a common skip, at their end or inside, in either case
DocumentTails == {
    <<"/", "d", "a">>,
    <<"/", "a", ".", "p", "d", "f">>,
    <<"/", "a", ".", "P", "D", "F">>,
    <<"/", "a", ".", "p", "d", "f", "/", "a">>,
    <<"/", "a", ".", "p", "d">> }

\* absolute URLs of the site and of another site, root-relative and relative references
UrlInputs ==
    {prefix \o t : prefix \in {<<>>, Origin, OtherOrigin}, t \in UrlTails \cup DocumentTails}

Bases == {<<>>, Origin \o <<"/", "a">>, Origin \o <<"/", "a", "/">>}

VisitedPool == {Origin, Origin \o <<"/", "a">>}

UrlInit ==
    /\ url \in UrlInputs
    /\ base \in Bases
    /\ visited_urls \in SUBSET VisitedPool
    /\ once = <<>> /\ twice = <<>> /\ skipped = FALSE
    /\ upc = "input" /\ filter_arg = <<>> /\ filtered = <<>>
    /\ CrawlIdle /\ ChunkIdle /\ RestIdle

CallNormalize ==
    /\ upc = "input"
    /\ once' = normalize_url(url, base)
    /\ upc' = "normalized"
    /\ UNCHANGED <<visited_urls, url, base, twice, skipped, filter_arg, filtered, crawlVars,
                   chunkVars, restVars>>

CallNormalizeAgain ==
    /\ upc = "normalized"
    /\ twice' = normalize_url(once, base)
    /\ upc' = "renormalized"
    /\ UNCHANGED <<visited_urls, url, base, once, skipped, filter_arg, filtered, crawlVars,
                   chunkVars, restVars>>

CallShouldSkip ==
    /\ upc = "input"
    /\ skipped' = should_skip(url, visited_urls)
    /\ upc' = "checked"
    /\ UNCHANGED <<visited_urls, url, base, once, twice, filter_arg, filtered, crawlVars,
                   chunkVars, restVars>>

\* BaseScraper.filter_urls: every URL is normalized, dropped if should_skip holds for it
\* or if it was kept before, and kept in order otherwise
filter_urls(list0) ==
    LET Kept(normalized) ==
          Dedup(Without(normalized,
                        {n \in Range(normalized) : should_skip(n, visited_urls)}))
        F(list) == Once(Kept, [i \in 1..Len(list) |-> normalize_url(list[i], <<>>)])
    IN Once(F, list0)

\* lists with the URL: alone, twice, and with a page of the site in its two spellings
FilterLists(u) == { <<u>>, <<u, u>>,
                    <<Origin \o <<"/", "a", "/">>, u, Origin \o <<"/", "a">> >> }

CallFilterUrls ==
    /\ upc = "input"
    /\ filter_arg' \in FilterLists(url)
    /\ filtered' = filter_urls(filter_arg')
    /\ upc' = "filtered"
    /\ UNCHANGED <<visited_urls, url, base, once, twice, skipped, crawlVars, chunkVars,
                   restVars>>

UrlNext == CallNormalize \/ CallNormalizeAgain \/ CallShouldSkip \/ CallFilterUrls

UrlSpec == UrlInit /\ [][UrlNext]_vars

(***************************************************************************)
(* One discover_urls run of a scraper over a site.                         *)
(***************************************************************************)
Xa == Origin \o <<"/", "a">>
Xb == Origin \o <<"/", "b">>
Xc == Origin \o <<"/", "c">>
Ya == OtherOrigin \o <<"/", "a">>

\* the href attributes a page of the site can hold, in document order: a root-relative
\* reference, a relative one, and an absolute one with a trailing slash and a fragment
AllHrefs == << <<"/", "a">>,
               <<"b">>,
               Origin \o <<"/", "c", "/", "#", "s">> >>

HrefLists ==
    {Pick(AllHrefs, I) : I \in {J \in SUBSET (1..Len(AllHrefs)) : Cardinality(J) <= MaxHrefs}}

\* what fetch_url and BeautifulSoup give for a URL: the fetch raises, or the page lacks the
\* element the link selector names, or the page has the element with these <a href> tags
Pages == [status : {"ok"}, hrefs : HrefLists]
            \cup [status : {"fetch_error", "no_container"}, hrefs : {<<>>}]

\* URLs that are not pages of the site do not load
DeadPage == [status |-> "fetch_error", hrefs |-> <<>>]

PageUrls == {Xa, Xb}

SeedUrls == {Xa, Xb, Ya}

\* config["start_urls"]: one to MaxSeeds different start URLs, in the order Xa, Xb, Ya
StartUrlLists ==
    {Pick(<<Xa, Xb, Ya>>, I) : I \in {J \in SUBSET (1..3) : Cardinality(J) \in 1..MaxSeeds}}

link_selector == "main"

fetch_url(u) == IF u \in DOMAIN web THEN web[u] ELSE DeadPage

\* the try block of extract_links_from_page
extract_links_body(u0, selector) ==
    LET Kept(absolute) ==
          Dedup(Without(absolute, {a \in Range(absolute) : should_skip(a, visited_urls)}))
        F(u, page) ==
          IF page.status = "fetch_error" THEN [raised |-> TRUE, links |-> <<>>]
          ELSE IF selector # "" /\ page.status = "no_container"
          THEN [raised |-> FALSE, links |-> <<>>]
          ELSE [raised |-> FALSE,
                links |-> Once(Kept, [i \in 1..Len(page.hrefs) |->
                                         normalize_url(page.hrefs[i], u)])]
    IN Once2(F, u0, fetch_url(u0))

\* extract_links_from_page without its except clause
extract_links_uncaught(u, selector) == extract_links_body(u, selector)

\* BaseScraper.extract_links_from_page
extract_links_from_page(u, selector) ==
    LET F(r) == IF r.raised THEN [raised |-> FALSE, links |-> <<>>] ELSE r
    IN Once(F, extract_links_body(u, selector))

\* the depth test alone
skip_entry_depth_only(u, depth) == depth > max_depth

\* a depth test that is off by one
skip_entry_early(u, depth) == u \in all_urls \/ depth >= max_depth

\* crawl_recursively: "if url in all_urls or depth > max_depth: continue"
skip_entry(u, depth) == u \in all_urls \/ depth > max_depth

\* reading the head of the queue without removing it
peek_rest(q) == q

\* crawl_recursively: what to_visit.pop(0) leaves in the queue
pop_rest(q) == Tail(q)

Count(log, u) == Cardinality({i \in 1..Len(log) : log[i] = u})

CrawlInit ==
    /\ visited_urls = {}
    /\ web \in [PageUrls -> Pages]
    /\ start_urls \in StartUrlLists
    /\ max_depth \in 0..MaxDepth
    /\ pc = "discover"
    /\ seed = 1
    /\ all_urls = {} /\ to_visit = <<>> /\ call_fetches = <<>> /\ run_fetches = <<>>
    /\ section_urls = <<>> /\ discovered = {} /\ urls = <<>>
    /\ UrlIdle /\ ChunkIdle /\ RestIdle

\* discover_urls: the for loop calls crawl_recursively(start_url, max_depth, link_selector)
StartCrawl ==
    /\ pc = "discover"
    /\ seed <= Len(start_urls)
    /\ all_urls' = {}
    /\ to_visit' = << <<start_urls[seed], 0>> >>
    /\ call_fetches' = <<>>
    /\ section_urls' = <<>>
    /\ pc' = "crawl"
    /\ UNCHANGED <<visited_urls, web, start_urls, max_depth, seed, run_fetches, discovered,
                   urls, urlVars, chunkVars, restVars>>

\* crawl_recursively: an iteration of the while loop that takes the continue
CrawlSkip ==
    /\ pc = "crawl"
    /\ to_visit # <<>>
    /\ skip_entry(to_visit[1][1], to_visit[1][2])
    /\ to_visit' = pop_rest(to_visit)
    /\ UNCHANGED <<visited_urls, web, start_urls, max_depth, pc, seed, all_urls, call_fetches,
                   run_fetches, section_urls, discovered, urls, urlVars, chunkVars, restVars>>

\* crawl_recursively: the queue entries "for link in links: if link not in all_urls:
\* to_visit.append((link, depth + 1))" adds, seen being all_urls after all_urls.add(url)
new_entries(links, seen, depth) ==
    LET F(fresh) == [i \in 1..Len(fresh) |-> <<fresh[i], depth + 1>>]
    IN Once(F, Without(links, seen))

\* crawl_recursively: an iteration of the while loop that visits the dequeued URL; an
\* exception of extract_links_from_page would leave the loop and the coroutine
CrawlVisit ==
    /\ pc = "crawl"
    /\ to_visit # <<>>
    /\ ~skip_entry(to_visit[1][1], to_visit[1][2])
    /\ all_urls' = all_urls \cup {to_visit[1][1]}
    /\ call_fetches' = Append(call_fetches, to_visit[1][1])
    /\ run_fetches' = Append(run_fetches, to_visit[1][1])
    /\ \E r \in {extract_links_from_page(to_visit[1][1], link_selector)} :
          /\ pc' = IF r.raised THEN "raised" ELSE "crawl"
          /\ to_visit' = pop_rest(to_visit)
                            \o new_entries(r.links, all_urls \cup {to_visit[1][1]},
                                           to_visit[1][2])
    /\ UNCHANGED <<visited_urls, web, start_urls, max_depth, seed, section_urls, discovered,
                   urls, urlVars, chunkVars, restVars>>

\* a discover_urls that keeps the result of its last crawl_recursively call only
CrawlReturnOverwrites ==
    /\ pc = "crawl"
    /\ to_visit = <<>>
    /\ section_urls' \in Listings(all_urls)
    /\ discovered' = all_urls
    /\ seed' = seed + 1
    /\ pc' = "discover"
    /\ UNCHANGED <<visited_urls, web, start_urls, max_depth, all_urls, to_visit, call_fetches,
                   run_fetches, urls, urlVars, chunkVars, restVars>>

\* crawl_recursively returns list(all_urls); discover_urls adds it to its own all_urls
CrawlReturn ==
    /\ pc = "crawl"
    /\ to_visit = <<>>
    /\ section_urls' \in Listings(all_urls)
    /\ discovered' = discovered \cup all_urls
    /\ seed' = seed + 1
    /\ pc' = "discover"
    /\ UNCHANGED <<visited_urls, web, start_urls, max_depth, all_urls, to_visit, call_fetches,
                   run_fetches, urls, urlVars, chunkVars, restVars>>

\* discover_urls: after the loop, filter_urls(list(all_urls)) is returned
Finish ==
    /\ pc = "discover"
    /\ seed > Len(start_urls)
    /\ \E list \in Listings(discovered) : urls' = filter_urls(list)
    /\ pc' = "done"
    /\ UNCHANGED <<visited_urls, web, start_urls, max_depth, seed, all_urls, to_visit,
                   call_fetches, run_fetches, section_urls, discovered, urlVars, chunkVars, restVars>>

CrawlNext == StartCrawl \/ CrawlSkip \/ CrawlVisit \/ CrawlReturn \/ Finish

CrawlSpec == CrawlInit /\ [][CrawlNext]_vars

\* before the scraper is built from its site descriptor
Unconfigured ==
    /\ visited_urls = {}
    /\ web = <<>> /\ start_urls = <<>> /\ max_depth = 0
    /\ pc = "new"
    /\ seed = 1
    /\ all_urls = {} /\ to_visit = <<>> /\ call_fetches = <<>> /\ run_fetches = <<>>
    /\ section_urls = <<>> /\ discovered = {} /\ urls = <<>>
    /\ UrlIdle /\ ChunkIdle /\ RestIdle

\* BaseScraper.__init__ reads the site descriptor; discover_urls is called on some site.
\* The descriptor has one start URL: every crawl_recursively call starts from an empty
\* all_urls and a queue of its start URL alone, whatever the calls before it did.
Configure ==
    /\ pc = "new"
    /\ web' \in [PageUrls -> Pages]
    /\ start_urls' \in {<<s>> : s \in SeedUrls}
    /\ max_depth' \in 0..MaxDepth
    /\ pc' = "discover"
    /\ UNCHANGED <<visited_urls, seed, all_urls, to_visit, call_fetches, run_fetches,
                   section_urls, discovered, urls, urlVars, chunkVars, restVars>>

\* The same run, from the construction of the scraper on.  asyncio runs a coroutine that
\* is not waiting on anything to its end, so a step of the run that can be taken is taken.
FairCrawlSpec == Unconfigured /\ [][Configure \/ CrawlNext]_vars /\ WF_vars(CrawlNext)

(***************************************************************************)
(* Properties of the traversal.                                            *)
(***************************************************************************)
\* the link graph: the links extract_links_from_page returns for a page
Links(u) == Range(extract_links_from_page(u, link_selector).links)

\* the URLs whose link distance from start is at most d
RECURSIVE Within(_, _)
Within(start, d) ==
    IF d = 0 THEN {start}
    ELSE LET near == Within(start, d - 1)
         IN near \cup UNION {Links(u) : u \in near}

\* a crawl_recursively call has returned: section_urls is its result for last_start
Returned == pc \in {"discover", "done"} /\ seed > 1
last_start == start_urls[seed - 1]

\* C1: crawl_recursively returns exactly the URLs whose shortest link distance from the
\* start URL is at most max_depth.
ReturnsWithinDepth ==
    Returned => Range(section_urls) = Within(last_start, max_depth)

\* a call has returned that left out a linked page because it lies beyond max_depth
DepthCutReturned ==
    /\ Returned
    /\ Cardinality(Range(section_urls)) >= 2
    /\ \E u \in Range(section_urls) : Links(u) \ Range(section_urls) # {}

\* C2: within one crawl_recursively call links are extracted exactly once from every
\* returned URL and from no other URL, and the returned list has no URL twice.
FetchedOncePerCall ==
    /\ pc = "crawl" =>
          \A u \in all_urls \cup Range(call_fetches) :
              u \in all_urls /\ Count(call_fetches, u) = 1
    /\ Returned =>
          /\ \A u \in Range(section_urls) \cup Range(call_fetches) :
                 /\ Count(call_fetches, u) = 1
                 /\ Count(section_urls, u) = 1

\* a call has returned from a site where a page links to itself and two pages link to
\* each other
CycleCrawled ==
    /\ Returned
    /\ \E u \in Range(section_urls) : u \in Links(u)
    /\ \E u, v \in Range(section_urls) : u # v /\ v \in Links(u) /\ u \in Links(v)

\* C3: in one discover_urls run over several start URLs no URL is fetched for link
\* extraction more than once.
FetchedOncePerRun == \A u \in Range(run_fetches) : Count(run_fetches, u) = 1

\* C4: every crawl_recursively call terminates: its queue becomes empty.
CrawlTerminates == (pc = "crawl") ~> (pc = "crawl" /\ to_visit = <<>>)

\* a call has emptied its queue on a site with a cycle
CycleQueueEmptied ==
    /\ pc = "crawl" /\ to_visit = <<>>
    /\ \E u, v \in all_urls : u # v /\ v \in Links(u) /\ u \in Links(v)

\* C5: a page whose link extraction fails yields no links and no exception: the
\* traversal goes on with the rest of the queue, the page stays visited, is returned as
\* discovered and is not fetched again.
Fails(u) == extract_links_body(u, link_selector).raised \/ fetch_url(u).status # "ok"

VisitsFailingPage ==
    /\ pc = "crawl" /\ to_visit # <<>>
    /\ ~skip_entry(to_visit[1][1], to_visit[1][2])
    /\ Fails(to_visit[1][1])

FailureAbsorbed ==
    /\ [](pc # "raised")
    /\ [][VisitsFailingPage =>
             /\ pc' = "crawl"
             /\ to_visit' = Tail(to_visit)
             /\ all_urls' = all_urls \cup {to_visit[1][1]}]_vars
    /\ [](pc = "crawl" =>
             \A u \in Range(call_fetches) :
                 Fails(u) => u \in all_urls /\ Count(call_fetches, u) = 1)
    /\ [](Returned =>
             \A u \in Range(call_fetches) :
                 Fails(u) => u \in Range(section_urls) /\ Count(call_fetches, u) = 1)

\* a call has returned a page whose fetch failed and a page without the link container,
\* one of them reached through a link
FailedPagesReturned ==
    /\ Returned
    /\ \E u, v \in Range(section_urls) :
          /\ fetch_url(u).status = "fetch_error"
          /\ fetch_url(v).status = "no_container"
    /\ Cardinality(Range(section_urls)) >= 3

\* C6: a start URL that should_skip rejects is never fetched and never returned by
\* crawl_recursively.
RejectedSeedNotCrawled ==
    \A i \in 1..Len(start_urls) :
        should_skip(normalize_url(start_urls[i], <<>>), visited_urls) =>
            /\ start_urls[i] \notin Range(run_fetches)
            /\ start_urls[i] \notin all_urls
            /\ start_urls[i] \notin Range(section_urls)

(***************************************************************************)
(* SmartChunker.  A text is the list of its lines; a line is a list of     *)
(* characters: "w" a word, " " a blank, "~" a backtick.                    *)
(***************************************************************************)
Fence == <<"~", "~", "~">>

\* the lines a document of the model is made of: an empty line, a word, a blank line, a
\* fence, a fence with an info string, an indented fence
LineSet == {<<>>, <<"w">>, <<" ">>, Fence, Fence \o <<"w">>, <<" ">> \o Fence}

MinChunkSize == 4

\* caller metadata: none, or one key
MetadataChoices == {<<>>, "source" :> "test"}

\* the encodings a chunker is built with: the default, and another encoding of tiktoken
\* with other merges
Encodings == {DefaultEncoding, "other"}

\* tiktoken.get_encoding(enc).encode on one line: in the default encoding a run of three
\* backticks is one token and any other character is one; the other encoding has no token
\* for the run of backticks
EncodedLength(enc, line) ==
    IF enc = DefaultEncoding /\ Contains(line, Fence) THEN Len(line) - 2 ELSE Len(line)

\* self.encoding.encode on one line
TokensOfLine(line) == EncodedLength(encoding_model, line)

RECURSIVE SumTokens(_)
SumTokens(lines) ==
    IF lines = <<>> THEN 0 ELSE TokensOfLine(lines[1]) + SumTokens(Tail(lines))

\* SmartChunker.count_tokens: the tokens of the lines and one token for every line break
count_tokens(text) == IF text = <<>> THEN 0 ELSE SumTokens(text) + Len(text) - 1

IsBlank(line) == \A i \in 1..Len(line) : line[i] = " "

\* line.lstrip() and line.rstrip()
LStrip(line) == SubSeq(line, Min({Len(line) + 1} \cup {i \in 1..Len(line) : line[i] # " "}),
                       Len(line))

\* text.strip(): <<>> stands for the empty string
Strip(text) ==
    LET solid == {i \in 1..Len(text) : ~IsBlank(text[i])}
        first == Min(solid)
        last == Max(solid)
    IN IF solid = {} THEN <<>>
       ELSE IF first = last THEN <<RStrip(LStrip(text[first]), " ")>>
       ELSE <<LStrip(text[first])>> \o SubSeq(text, first + 1, last - 1)
            \o <<RStrip(text[last], " ")>>

\* SentenceSplitter: the token size of the i-th split of a text, a line with the line
\* break that precedes it, for a splitter whose tokenizer has the encoding enc
SplitSize(enc, text, i) == EncodedLength(enc, text[i]) + (IF i > 1 THEN 1 ELSE 0)

RECURSIVE RangeSize(_, _, _, _)
RangeSize(enc, text, from, to) ==
    IF from > to THEN 0 ELSE SplitSize(enc, text, from) + RangeSize(enc, text, from + 1, to)

\* SentenceSplitter._merge, close_chunk: the next chunk starts with the last splits of the
\* closed chunk from..to that fit into chunk_overlap together
OverlapStart(enc, text, from, to) ==
    Min({j \in from..(to + 1) : RangeSize(enc, text, j, to) <= overlap})

\* SentenceSplitter._merge: the chunks as ranges <<first split, last split>>; i is the next
\* split, the current chunk holds the splits from..i-1 of size len
RECURSIVE Merge(_, _, _, _, _, _, _, _)
Merge(enc, text, size, i, from, len, new_chunk, closed) ==
    IF i > Len(text)
    THEN IF new_chunk THEN closed ELSE Append(closed, <<from, Len(text)>>)
    ELSE IF len + SplitSize(enc, text, i) > size /\ ~new_chunk
    THEN Merge(enc, text, size, i, OverlapStart(enc, text, from, i - 1),
               RangeSize(enc, text, OverlapStart(enc, text, from, i - 1), i - 1), TRUE,
               Append(closed, <<from, i - 1>>))
    ELSE Merge(enc, text, size, i + 1, from, len + SplitSize(enc, text, i), FALSE, closed)

\* the tokens of the metadata string that SentenceSplitter takes off the chunk size
MetadataTokens(meta) == Cardinality(DOMAIN meta)

\* SentenceSplitter.get_nodes_from_documents, for a splitter whose tokenizer has the
\* encoding enc: the text of every node; the empty text is returned as its own single
\* chunk, otherwise every chunk is stripped and empty chunks are dropped
SplitterNodesWith(enc, text, meta) ==
    LET ranges == Merge(enc, text, chunk_size - MetadataTokens(meta), 1, 1, 0, TRUE, <<>>)
        stripped == [k \in 1..Len(ranges) |-> Strip(SubSeq(text, ranges[k][1], ranges[k][2]))]
    IN IF text = << <<>> >> THEN <<text>> ELSE Without(stripped, {<<>>})

\* self.splitter.get_nodes_from_documents: SmartChunker.__init__ builds SentenceSplitter
\* without a tokenizer argument, so the splitter counts with its own default tokenizer,
\* whatever encoding_model is
SplitterNodes(text, meta) == SplitterNodesWith(DefaultEncoding, text, meta)

\* chunk_text without its test for an empty or whitespace-only text
chunk_text_unguarded(text, meta) ==
    LET nodes == SplitterNodes(text, meta)
    IN [i \in 1..Len(nodes) |->
          [content |-> nodes[i],
           metadata |-> ("chunk_index" :> (i - 1) @@ "chunk_count" :> Len(nodes)) @@ meta,
           tokens |-> count_tokens(nodes[i])]]

\* SmartChunker.chunk_text
chunk_text(text, meta) ==
    IF Strip(text) = <<>> THEN <<>>
    ELSE LET nodes == SplitterNodes(text, meta)
         IN [i \in 1..Len(nodes) |->
               [content |-> nodes[i],
                metadata |-> ("chunk_index" :> (i - 1) @@ "chunk_count" :> Len(nodes)) @@ meta,
                tokens |-> count_tokens(nodes[i])]]

\* _split_preserving_code_blocks: code_fence_pattern.match(line), a line that starts with three backticks
is_fence(line) == StartsWith(line, Fence)

\* a scan that closes a code block before its closing fence line, which then starts the
\* prose that follows
RECURSIVE ScanLinesFenceApart(_, _, _, _, _)
ScanLinesFenceApart(lines, i, parts, current_text, in_code_block) ==
    IF i > Len(lines)
    THEN IF current_text # <<>> THEN Append(parts, <<current_text, in_code_block>>)
         ELSE parts
    ELSE IF is_fence(lines[i])
    THEN IF in_code_block
         THEN ScanLinesFenceApart(lines, i + 1, Append(parts, <<current_text, TRUE>>),
                                  <<lines[i]>>, FALSE)
         ELSE ScanLinesFenceApart(lines, i + 1,
                                  IF current_text # <<>>
                                  THEN Append(parts, <<current_text, FALSE>>)
                                  ELSE parts,
                                  <<lines[i]>>, TRUE)
    ELSE ScanLinesFenceApart(lines, i + 1, parts, Append(current_text, lines[i]),
                             in_code_block)

\* a scan that leaves an opening fence line at the end of the prose before it
RECURSIVE ScanLinesFenceInProse(_, _, _, _, _)
ScanLinesFenceInProse(lines, i, parts, current_text, in_code_block) ==
    IF i > Len(lines)
    THEN IF current_text # <<>> THEN Append(parts, <<current_text, in_code_block>>)
         ELSE parts
    ELSE IF is_fence(lines[i])
    THEN IF in_code_block
         THEN ScanLinesFenceInProse(lines, i + 1,
                                    Append(parts, <<Append(current_text, lines[i]), TRUE>>),
                                    <<>>, FALSE)
         ELSE ScanLinesFenceInProse(lines, i + 1,
                                    Append(parts, <<Append(current_text, lines[i]), FALSE>>),
                                    <<>>, TRUE)
    ELSE ScanLinesFenceInProse(lines, i + 1, parts, Append(current_text, lines[i]),
                               in_code_block)

\* _split_preserving_code_blocks: the while loop from line i on
RECURSIVE ScanLines(_, _, _, _, _)
ScanLines(lines, i, parts, current_text, in_code_block) ==
    IF i > Len(lines)
    THEN IF current_text # <<>> THEN Append(parts, <<current_text, in_code_block>>)
         ELSE parts
    ELSE IF is_fence(lines[i])
    THEN IF in_code_block
         THEN ScanLines(lines, i + 1, Append(parts, <<Append(current_text, lines[i]), TRUE>>),
                        <<>>, FALSE)
         ELSE ScanLines(lines, i + 1,
                        IF current_text # <<>> THEN Append(parts, <<current_text, FALSE>>)
                        ELSE parts,
                        <<lines[i]>>, TRUE)
    ELSE ScanLines(lines, i + 1, parts, Append(current_text, lines[i]), in_code_block)

\* a scan that starts at the second line
split_from_second_line(text) == ScanLines(text, 2, <<>>, <<>>, FALSE)

\* SmartChunker._split_preserving_code_blocks
split_preserving_code_blocks(text) == ScanLines(text, 1, <<>>, <<>>, FALSE)

\* a code block that is always split like prose
code_chunks_always_split(part_text, meta) == chunk_text(part_text, meta)

\* chunk_markdown: the chunks of one code part
code_chunks(part_text, meta) ==
    IF count_tokens(part_text) <= chunk_size
    THEN << [content |-> part_text,
             metadata |-> ("is_code_block" :> TRUE) @@ meta,
             tokens |-> count_tokens(part_text)] >>
    ELSE chunk_text(part_text, meta)

\* chunk_markdown: the for loop over the parts
RECURSIVE chunk_parts(_, _)
chunk_parts(parts, meta) ==
    IF parts = <<>> THEN <<>>
    ELSE (IF parts[1][2] THEN code_chunks(parts[1][1], meta)
          ELSE chunk_text(parts[1][1], meta))
         \o chunk_parts(Tail(parts), meta)

\* SmartChunker.chunk_markdown
chunk_markdown(text, meta, preserve) ==
    IF preserve THEN chunk_parts(split_preserving_code_blocks(text), meta)
    ELSE chunk_text(text, meta)

\* the arguments of a chunker call and the sizes the chunker was built with
ChunkInputs ==
    /\ markdown \in SeqsUpTo(LineSet, MaxLines) \ {<<>>}
    /\ metadata \in MetadataChoices
    /\ preserve_code_blocks = FALSE
    /\ chunk_size \in MinChunkSize..MaxChunkSize
    /\ overlap \in {0, 1}
    /\ chunks = <<>>
    /\ cpc = "input"
    /\ visited_urls = {}
    /\ CrawlIdle /\ UrlIdle /\ RestIdle

\* a chunker built with the default encoding_model, as the embedder builds it
ChunkInit == ChunkInputs /\ encoding_model = DefaultEncoding

\* a chunker built with any encoding_model
EncodingInit == ChunkInputs /\ encoding_model \in Encodings

CallChunkText ==
    /\ cpc = "input"
    /\ chunks' = chunk_text(markdown, metadata)
    /\ cpc' = "chunk_text"
    /\ UNCHANGED <<visited_urls, markdown, metadata, preserve_code_blocks, chunk_size, overlap,
                   encoding_model, crawlVars, urlVars, restVars>>

CallChunkMarkdown ==
    /\ cpc = "input"
    /\ \E preserve \in BOOLEAN :
          /\ preserve_code_blocks' = preserve
          /\ chunks' = chunk_markdown(markdown, metadata, preserve)
    /\ cpc' = "chunk_markdown"
    /\ UNCHANGED <<visited_urls, markdown, metadata, chunk_size, overlap, encoding_model,
                   crawlVars, urlVars, restVars>>

ChunkNext == CallChunkText \/ CallChunkMarkdown

ChunkSpec == ChunkInit /\ [][ChunkNext]_vars

EncodingSpec == EncodingInit /\ [][ChunkNext]_vars

(***************************************************************************)
(* Properties of the chunker.                                              *)
(***************************************************************************)
\* the positions of the fence lines of the document, in order
FenceLines ==
    Pick([i \in 1..Len(markdown) |-> i],
         {i \in 1..Len(markdown) : StartsWith(markdown[i], Fence)})

\* the fenced code blocks of the document: the lines from every odd fence line to the
\* fence line that follows it
FencedBlocks ==
    [k \in 1..(Len(FenceLines) \div 2) |->
        SubSeq(markdown, FenceLines[2 * k - 1], FenceLines[2 * k])]

Fits(block) == count_tokens(block) <= chunk_size

IsAtomic(chunk) ==
    "is_code_block" \in DOMAIN chunk.metadata /\ chunk.metadata["is_code_block"] = TRUE

AtomicContents ==
    LET idx == Pick([i \in 1..Len(chunks) |-> i], {i \in 1..Len(chunks) : IsAtomic(chunks[i])})
    IN [k \in 1..Len(idx) |-> chunks[idx[k]].content]

FittingBlocks ==
    Pick(FencedBlocks, {k \in 1..Len(FencedBlocks) : Fits(FencedBlocks[k])})

\* C9: with preserve_code_blocks every fenced code block that fits into chunk_size is one
\* chunk, verbatim and tagged is_code_block: the tagged chunks are the fitting blocks in
\* document order (followed by an unclosed last block if there is one), and no other
\* chunk repeats a fitting block.
CodeBlocksAtomic ==
    (cpc = "chunk_markdown" /\ preserve_code_blocks) =>
        /\ Len(FittingBlocks) <= Len(AtomicContents)
        /\ Len(AtomicContents) <= Len(FittingBlocks) + 1
        /\ SubSeq(AtomicContents, 1, Len(FittingBlocks)) = FittingBlocks
        /\ \A i \in 1..Len(chunks) :
              ~IsAtomic(chunks[i]) => chunks[i].content \notin Range(FittingBlocks)

\* chunk_markdown has returned for a document with a fitting code block that has a line
\* of code in it, and with prose that became a chunk of its own
AtomicBlockEmitted ==
    /\ cpc = "chunk_markdown" /\ preserve_code_blocks
    /\ \E k \in 1..Len(FencedBlocks) :
          /\ Fits(FencedBlocks[k])
          /\ Len(FencedBlocks[k]) >= 3
          /\ ~IsBlank(FencedBlocks[k][2])
    /\ \E i \in 1..Len(chunks) : ~IsAtomic(chunks[i])

\* C10: the chunk_index values of the chunks of one document are 0, 1, ..., n-1 in output
\* order and every chunk_count is n, the number of chunks of the document.
ChunkIndexesContiguous ==
    cpc \in {"chunk_text", "chunk_markdown"} =>
        \A i \in 1..Len(chunks) :
            /\ "chunk_index" \in DOMAIN chunks[i].metadata
            /\ "chunk_count" \in DOMAIN chunks[i].metadata
            /\ chunks[i].metadata["chunk_index"] = i - 1
            /\ chunks[i].metadata["chunk_count"] = Len(chunks)

\* C7: normalize_url is idempotent: normalizing an already normalized URL against the
\* same base returns it unchanged.
NormalizeIdempotent == upc = "renormalized" => twice = once

\* C8: a fragment variant p#f of a URL p of the visited set is skipped.
IsFragmentVariantOfVisited ==
    \E p \in visited_urls : StartsWith(url, p \o <<"#">>)

FragmentOfVisitedSkipped ==
    (upc = "checked" /\ IsFragmentVariantOfVisited) => skipped = TRUE

\* should_skip has answered for a fragment variant of a visited URL that is not itself visited
FragmentOfVisitedChecked ==
    /\ upc = "checked"
    /\ IsFragmentVariantOfVisited
    /\ url \notin visited_urls
    /\ Len(After(url, "#")) > 0

\* C11: every chunk carries every key and value of the caller's metadata and has a
\* chunk_index and a chunk_count entry, atomic code chunks included.
MetadataPropagated ==
    cpc \in {"chunk_text", "chunk_markdown"} =>
        \A i \in 1..Len(chunks) :
            /\ \A k \in DOMAIN metadata :
                  k \in DOMAIN chunks[i].metadata /\ chunks[i].metadata[k] = metadata[k]
            /\ {"chunk_index", "chunk_count"} \subseteq DOMAIN chunks[i].metadata

\* C12 as claimed: chunking a text whose token count is at most chunk_size returns exactly
\* one chunk, and its content is the text.
FittingTextOneChunk ==
    (cpc \in {"chunk_text", "chunk_markdown"} /\ count_tokens(markdown) <= chunk_size) =>
        Len(chunks) = 1 /\ chunks[1].content = markdown

\* the text is one span for _split_preserving_code_blocks: it has no fence line, or it
\* starts with a fence line and has no other fence line but, possibly, its last line
SingleSpan ==
    \/ FenceLines = <<>>
    \/ /\ FenceLines[1] = 1
       /\ \/ Len(FenceLines) = 1
          \/ Len(FenceLines) = 2 /\ FenceLines[2] = Len(markdown)

\* the token count of a text as the tokenizer of the splitter counts it
SplitterTokenCount(text) == RangeSize(DefaultEncoding, text, 1, Len(text))

\* the text has no leading or trailing whitespace (and is not empty), and fits into
\* chunk_size together with the metadata, counted as the splitter counts
CleanFittingText ==
    /\ Strip(markdown) = markdown
    /\ SplitterTokenCount(markdown) + MetadataTokens(metadata) <= chunk_size

\* C12, amended: a text without leading or trailing whitespace that fits into chunk_size
\* together with the metadata (in the tokens of the splitter) is returned as exactly one chunk whose content is the text,
\* by chunk_text, by chunk_markdown without preserve_code_blocks, and by chunk_markdown
\* with preserve_code_blocks when the text is a single span.
CleanFittingTextOneChunk ==
    (/\ cpc \in {"chunk_text", "chunk_markdown"}
     /\ CleanFittingText
     /\ (cpc = "chunk_markdown" /\ preserve_code_blocks) => SingleSpan) =>
        Len(chunks) = 1 /\ chunks[1].content = markdown

\* chunk_markdown with preserve_code_blocks has returned for a fitting text that is one
\* closed code block with a line of code, called with metadata
FittingCodeBlockChunked ==
    /\ cpc = "chunk_markdown" /\ preserve_code_blocks
    /\ CleanFittingText /\ SingleSpan
    /\ Len(FenceLines) = 2 /\ Len(markdown) >= 3
    /\ metadata # <<>>

\* the text is empty or has whitespace only
BlankText == \A i \in 1..Len(markdown) : IsBlank(markdown[i])

\* C13: for an empty or whitespace-only text chunk_text and chunk_markdown, with either
\* preserve_code_blocks setting, return no chunk.
BlankTextNoChunks ==
    (cpc \in {"chunk_text", "chunk_markdown"} /\ BlankText) => chunks = <<>>

\* the chunker has been called on the empty text
EmptyTextChunked ==
    /\ cpc \in {"chunk_text", "chunk_markdown"}
    /\ markdown = << <<>> >>

\* C15: every chunk reports at most chunk_size * 1.2 tokens.
TokensWithinTolerance ==
    cpc \in {"chunk_text", "chunk_markdown"} =>
        \A i \in 1..Len(chunks) : 5 * chunks[i].tokens <= 6 * chunk_size

\* the contents of the returned chunks
Contents == [i \in 1..Len(chunks) |-> chunks[i].content]

\* C16: every chunk reports count_tokens of its content, and where chunk_text splits a
\* text the split is decided in the tokens of count_tokens: the chunks are those of a
\* splitter that counts with the encoding of the chunker.
OneTokenizer ==
    /\ cpc \in {"chunk_text", "chunk_markdown"} =>
          \A i \in 1..Len(chunks) : chunks[i].tokens = count_tokens(chunks[i].content)
    /\ (cpc = "chunk_text" /\ ~BlankText) =>
          Contents = SplitterNodesWith(encoding_model, markdown, metadata)

(***************************************************************************)
(* Embedder.embed and Indexer._index_framework on the markdown files of    *)
(* one framework.  The chunker of the embedder has the default encoding.   *)
(***************************************************************************)
IndexLineSet == {<<"w">>, Fence}

\* the contents of a markdown file
IndexDocs == SeqsUpTo(IndexLineSet, MaxLines) \ {<<>>}

EmbedBatchSize == 100
UpsertBatchSize == 100

\* Embedder._process_file: the metadata given to chunk_markdown for the i-th file
FileMetadata(i) ==
    "framework" :> "react" @@ "url" :> md_files[i].url @@ "title" :> "t"
    @@ "source_file" :> md_files[i].url

IndexInit ==
    /\ md_files \in {<< [url |-> "a", content |-> c1], [url |-> "b", content |-> c2] >> :
                        c1 \in IndexDocs, c2 \in IndexDocs}
    /\ md_done = 0 /\ all_chunks = <<>> /\ has_embedding = <<>>
    /\ vectors = <<>> /\ upserted = 0 /\ namespace = <<>>
    /\ ipc = "chunking"
    /\ chunk_size = MinChunkSize + Cardinality(DOMAIN FileMetadata(1))
    /\ overlap \in {0, 1}
    /\ encoding_model = DefaultEncoding
    /\ markdown = <<>> /\ metadata = <<>> /\ preserve_code_blocks = TRUE
    /\ chunks = <<>> /\ cpc = "idle"
    /\ visited_urls = {}
    /\ CrawlIdle /\ UrlIdle /\ OrchIdle /\ DownloadIdle /\ FetchIdle /\ CleanIdle

\* Embedder.embed: one turn of the loop over md_files, with _process_file, which returns
\* no chunks when the file cannot be processed
ProcessFile ==
    /\ ipc = "chunking" /\ md_done < Len(md_files)
    /\ \E ok \in BOOLEAN :
          all_chunks' = all_chunks \o
              (IF ok THEN chunk_markdown(md_files[md_done + 1].content,
                                         FileMetadata(md_done + 1), TRUE)
               ELSE <<>>)
    /\ md_done' = md_done + 1
    /\ UNCHANGED <<md_files, has_embedding, vectors, upserted, namespace, ipc, notIndexVars>>

\* Embedder._generate_embeddings_batch and _save_chunks: a batch whose request fails
\* leaves its chunks without an embedding
GenerateEmbeddings ==
    /\ ipc = "chunking" /\ md_done = Len(md_files)
    /\ \E oks \in [1..((Len(all_chunks) + EmbedBatchSize - 1) \div EmbedBatchSize) -> BOOLEAN] :
          has_embedding' = [k \in 1..Len(all_chunks) |-> oks[(k - 1) \div EmbedBatchSize + 1]]
    /\ ipc' = "saved"
    /\ UNCHANGED <<md_files, md_done, all_chunks, vectors, upserted, namespace, notIndexVars>>

\* utils.hash.compute_hash, taken as free of collisions
compute_hash(id_string) == <<"sha256", id_string>>

\* the identifier made of a URL and a chunk index
ChunkId(u, chunk_index) == <<chunk_index, compute_hash(<<u, chunk_index>>)>>

\* Indexer._generate_chunk_id
generate_chunk_id(chunk, index) ==
    LET u == IF "url" \in DOMAIN chunk.metadata THEN chunk.metadata["url"] ELSE "unknown"
        chunk_index == IF "chunk_index" \in DOMAIN chunk.metadata
                       THEN chunk.metadata["chunk_index"] ELSE index
    IN ChunkId(u, chunk_index)

\* Indexer._index_framework: the positions in chunks.json of the chunks with an embedding
EmbeddedIndexes ==
    Pick([k \in 1..Len(all_chunks) |-> k], {k \in 1..Len(all_chunks) : has_embedding[k]})

\* Indexer._index_framework: the loop that prepares the vectors
PrepareVectors ==
    /\ ipc = "saved"
    /\ vectors' = [i \in 1..Len(EmbeddedIndexes) |->
                      [id |-> generate_chunk_id(all_chunks[EmbeddedIndexes[i]], i - 1),
                       content |-> all_chunks[EmbeddedIndexes[i]].content]]
    /\ ipc' = "uploading"
    /\ UNCHANGED <<md_files, md_done, all_chunks, has_embedding, upserted,
                   namespace, notIndexVars>>

\* index.upsert of a batch into a namespace: a vector replaces the one with its id
RECURSIVE UpsertAll(_, _)
UpsertAll(ns, batch) ==
    IF batch = <<>> THEN ns
    ELSE UpsertAll((batch[1].id :> batch[1].content) @@ ns, Tail(batch))

\* Indexer._index_framework: one turn of the upload loop; a failed upsert is counted
Upsert ==
    /\ ipc = "uploading" /\ upserted < Len(vectors)
    /\ LET last == Min({Len(vectors), upserted + UpsertBatchSize})
       IN /\ \E ok \in BOOLEAN :
                namespace' = IF ok THEN UpsertAll(namespace, SubSeq(vectors, upserted + 1, last))
                             ELSE namespace
          /\ upserted' = last
    /\ UNCHANGED <<md_files, md_done, all_chunks, has_embedding, vectors, ipc, notIndexVars>>

\* Indexer._index_framework returns
FinishIndex ==
    /\ ipc = "uploading" /\ upserted = Len(vectors)
    /\ ipc' = "indexed"
    /\ UNCHANGED <<md_files, md_done, all_chunks, has_embedding, vectors,
                   upserted, namespace, notIndexVars>>

IndexNext == ProcessFile \/ GenerateEmbeddings \/ PrepareVectors \/ Upsert \/ FinishIndex

IndexSpec == IndexInit /\ [][IndexNext]_vars

\* the index of the k-th chunk of chunks.json within the chunks of its document
PositionInDocument(k) ==
    Cardinality({j \in 1..(k - 1) :
                    all_chunks[j].metadata["url"] = all_chunks[k].metadata["url"]})

\* C14: every vector has the identifier made of the URL of its document and of the index
\* of its chunk within that document, and no two vectors of the namespace have the same
\* identifier.
ChunkIdsUnique ==
    ipc \in {"uploading", "indexed"} =>
        /\ \A i \in 1..Len(vectors) :
              vectors[i].id = ChunkId(all_chunks[EmbeddedIndexes[i]].metadata["url"],
                                      PositionInDocument(EmbeddedIndexes[i]))
        /\ \A i, j \in 1..Len(vectors) : i # j => vectors[i].id # vectors[j].id

(***************************************************************************)
(* Crawler.crawl: discovery and download for a list of framework names.    *)
(***************************************************************************)
MaxFrameworks == 2
MaxFound == 2

\* the framework names with a site descriptor in framework_configs
Descriptors == {"react", "nextjs", "vue"}

\* the keys of SCRAPER_MAP
Scrapers == {"react", "nextjs"}

FrameworkNames == Descriptors \cup Scrapers \cup {"svelte"}

\* Crawler.__init__: the stats dictionary
InitialStats ==
    [frameworks_crawled |-> 0, total_urls_discovered |-> 0, total_files_downloaded |-> 0,
     total_failures |-> 0]

OrchInit ==
    /\ frameworks \in SeqsUpTo(FrameworkNames, MaxFrameworks) \ {<<>>}
    /\ opc = "running" /\ fw_done = 0 /\ dl_done = 0
    /\ crawl_urls_of = <<>>
    /\ stats = InitialStats
    /\ stage_events = << <<"start", "crawl">> >>
    /\ visited_urls = {}
    /\ CrawlIdle /\ UrlIdle /\ ChunkIdle /\ IndexIdle /\ DownloadIdle /\ FetchIdle /\ CleanIdle

\* all_urls[framework] = urls on a dict that keeps the order of its keys
DictSet(d, key, value) ==
    IF \E i \in 1..Len(d) : d[i][1] = key
    THEN [i \in 1..Len(d) |-> IF d[i][1] = key THEN <<key, value>> ELSE d[i]]
    ELSE Append(d, <<key, value>>)

\* Crawler._discover_framework_urls: the records of the n URLs a scraper found
url_data(framework, n) ==
    [k \in 1..n |-> [framework |-> framework, url |-> <<framework, k>>, status |-> ""]]

\* Crawler.crawl, step 1: one turn of the loop with _discover_framework_urls.  A name
\* without a descriptor raises KeyError out of crawl; a name without a scraper gives no
\* URLs; a scraper gives the URLs it found, or none when it raised.
Discover ==
    /\ opc = "running" /\ fw_done < Len(frameworks)
    /\ LET framework == frameworks[fw_done + 1]
       IN IF framework \notin Descriptors
          THEN /\ opc' = "raised"
               /\ UNCHANGED <<fw_done, crawl_urls_of, stats, stage_events>>
          ELSE /\ \E n \in 0..MaxFound :
                     /\ framework \notin Scrapers => n = 0
                     /\ crawl_urls_of' = DictSet(crawl_urls_of, framework,
                                                 url_data(framework, n))
                     /\ stats' = [stats EXCEPT !.total_urls_discovered = @ + n]
               /\ fw_done' = fw_done + 1
               /\ stage_events' = Append(stage_events, <<"discover", framework>>)
               /\ opc' = opc
    /\ UNCHANGED <<frameworks, dl_done, notOrchVars>>

\* a crawl that downloads the URLs of a framework while others are still to be discovered
DownloadDuringDiscovery ==
    /\ opc = "running" /\ dl_done < Len(crawl_urls_of)
    /\ stats' = [stats EXCEPT !.frameworks_crawled = @ + 1]
    /\ dl_done' = dl_done + 1
    /\ stage_events' = Append(stage_events, <<"download", crawl_urls_of[dl_done + 1][1]>>)
    /\ UNCHANGED <<frameworks, opc, fw_done, crawl_urls_of, notOrchVars>>

\* Crawler.crawl, step 2: one turn of the loop with _download_urls; download_one sets the
\* status of its record and counts it, whatever fetch_url and save_content do
Download ==
    /\ opc = "running" /\ fw_done = Len(frameworks) /\ dl_done < Len(crawl_urls_of)
    /\ LET url_records == crawl_urls_of[dl_done + 1][2]
       IN \E outcome \in [1..Len(url_records) -> {"success", "failed"}] :
             LET succeeded ==
                     Cardinality({k \in 1..Len(url_records) : outcome[k] = "success"})
             IN /\ crawl_urls_of' =
                      [crawl_urls_of EXCEPT ![dl_done + 1][2] =
                          [k \in 1..Len(url_records) |->
                              [url_records[k] EXCEPT !.status = outcome[k]]]]
                /\ stats' = [stats EXCEPT !.total_files_downloaded = @ + succeeded,
                                          !.total_failures = @ + Len(url_records) - succeeded,
                                          !.frameworks_crawled = @ + 1]
    /\ dl_done' = dl_done + 1
    /\ stage_events' = Append(stage_events, <<"download", crawl_urls_of[dl_done + 1][1]>>)
    /\ UNCHANGED <<frameworks, opc, fw_done, notOrchVars>>

\* Crawler.crawl, step 3: the report is written and the stats are returned
Return ==
    /\ opc = "running" /\ fw_done = Len(frameworks) /\ dl_done = Len(crawl_urls_of)
    /\ opc' = "returned"
    /\ stage_events' = stage_events \o << <<"report", "crawl">>, <<"return", "crawl">> >>
    /\ UNCHANGED <<frameworks, fw_done, dl_done, crawl_urls_of, stats, notOrchVars>>

\* scripts/full_pipeline.py, main: the stages in the order of their await statements
Stages == <<"crawl", "parse", "embed", "index">>

LastEvent == stage_events[Len(stage_events)]

\* main: after the await of a stage has returned, the next stage is built and called
StartStage ==
    /\ opc = "returned"
    /\ \E k \in 1..(Len(Stages) - 1) :
          /\ LastEvent = <<"return", Stages[k]>>
          /\ stage_events' = Append(stage_events, <<"start", Stages[k + 1]>>)
    /\ UNCHANGED <<frameworks, opc, fw_done, dl_done, crawl_urls_of, stats, notOrchVars>>

\* Parser.parse, Embedder.embed or Indexer.index_all returns its stats, or raises out of
\* main
EndStage ==
    /\ opc = "returned"
    /\ \E k \in 2..Len(Stages) :
          /\ LastEvent = <<"start", Stages[k]>>
          /\ \E how \in {"return", "raise"} :
                stage_events' = Append(stage_events, <<how, Stages[k]>>)
    /\ UNCHANGED <<frameworks, opc, fw_done, dl_done, crawl_urls_of, stats, notOrchVars>>

OrchNext == Discover \/ Download \/ Return \/ StartStage \/ EndStage

OrchSpec == OrchInit /\ [][OrchNext]_vars

\* the list names a framework without a descriptor or without a scraper
UnknownRequested ==
    \E i \in 1..Len(frameworks) : frameworks[i] \notin (Descriptors \cap Scrapers)

\* a scraper has been run, or a download loop has been run
WorkPerformed ==
    \/ \E i \in 1..Len(crawl_urls_of) : crawl_urls_of[i][1] \in Scrapers
    \/ dl_done > 0

\* C17: with a framework name that has no descriptor or no scraper in the list, crawl
\* does not return normally, and no discovery or download is done for any framework.
UnknownFrameworkFatal ==
    (opc # "idle" /\ UnknownRequested) => (opc # "returned" /\ ~WorkPerformed)

\* C18: when crawl has returned, every URL record has status success or failed, and
\* total_files_downloaded + total_failures = total_urls_discovered.
DownloadsAccounted ==
    opc = "returned" =>
        /\ \A i \in 1..Len(crawl_urls_of) : \A k \in 1..Len(crawl_urls_of[i][2]) :
              crawl_urls_of[i][2][k].status \in {"success", "failed"}
        /\ stats.total_files_downloaded + stats.total_failures = stats.total_urls_discovered

(***************************************************************************)
(* Crawler._download_urls and crawl_urls: concurrent downloads under a     *)
(* semaphore.  A task is waiting for the semaphore, fetching, sleeping     *)
(* the delay, or done.                                                     *)
(***************************************************************************)
\* Crawler._download_urls: asyncio.Semaphore(5)
DownloadSlots == 5

\* crawl_urls: the default of max_concurrent
DefaultMaxConcurrent == 5

\* the URLs to download: one more than the semaphore admits
DownloadUrls == 1..(DownloadSlots + 1)

DownloadInit ==
    /\ downloader \in {"_download_urls", "crawl_urls"}
    /\ max_concurrent \in (IF downloader = "_download_urls" THEN {DownloadSlots}
                           ELSE {1, DefaultMaxConcurrent})
    /\ semaphore = max_concurrent
    /\ task = [u \in DownloadUrls |-> "waiting"]
    /\ result = [u \in DownloadUrls |-> ""]
    /\ visited_urls = {}
    /\ CrawlIdle /\ UrlIdle /\ ChunkIdle /\ IndexIdle /\ OrchIdle /\ FetchIdle /\ CleanIdle

\* async with semaphore, entered with no free slot
AcquireUnbounded(u) ==
    /\ task[u] = "waiting"
    /\ semaphore' = semaphore - 1
    /\ task' = [task EXCEPT ![u] = "fetching"]
    /\ UNCHANGED <<downloader, max_concurrent, result, notDownloadVars>>

\* download_one, crawl_one: async with semaphore is entered
Acquire(u) ==
    /\ task[u] = "waiting"
    /\ semaphore > 0
    /\ semaphore' = semaphore - 1
    /\ task' = [task EXCEPT ![u] = "fetching"]
    /\ UNCHANGED <<downloader, max_concurrent, result, notDownloadVars>>

\* download_one, crawl_one: fetch_url and save_content have returned or raised, the
\* outcome is recorded, and asyncio.sleep of the delay begins
Fetched(u) ==
    /\ task[u] = "fetching"
    /\ \E status \in {"success", "failed"} : result' = [result EXCEPT ![u] = status]
    /\ task' = [task EXCEPT ![u] = "sleeping"]
    /\ UNCHANGED <<downloader, max_concurrent, semaphore, notDownloadVars>>

\* download_one, crawl_one: the delay is over and async with semaphore is left
Slept(u) ==
    /\ task[u] = "sleeping"
    /\ semaphore' = semaphore + 1
    /\ task' = [task EXCEPT ![u] = "done"]
    /\ UNCHANGED <<downloader, max_concurrent, result, notDownloadVars>>

DownloadNext == \E u \in DownloadUrls : Acquire(u) \/ Fetched(u) \/ Slept(u)

DownloadSpec == DownloadInit /\ [][DownloadNext]_vars

\* the URLs whose fetch is in flight, and those in the delay after their fetch
Fetching == {u \in DOMAIN task : task[u] = "fetching"}
Sleeping == {u \in DOMAIN task : task[u] = "sleeping"}

\* C19: at most max_concurrent fetches are in flight (5 in Crawler._download_urls), and
\* a slot is free again only after the delay that follows its fetch: the free slots are
\* those of the semaphore that are held neither by a fetch nor by a delay.
SlotsHeldThroughDelay ==
    downloader # "" =>
        /\ Cardinality(Fetching) <= max_concurrent
        /\ downloader = "_download_urls" => max_concurrent = 5
        /\ semaphore >= 0
        /\ semaphore + Cardinality(Fetching) + Cardinality(Sleeping) = max_concurrent

\* every slot is taken, one of them by a URL in its delay after a failed fetch, while
\* another URL waits
WaitingBehindDelay ==
    /\ downloader # "" /\ semaphore = 0
    /\ \E u \in Sleeping : result[u] = "failed"
    /\ \E u \in DOMAIN task : task[u] = "waiting"

(***************************************************************************)
(* fetch_url, with fetch_with_requests and fetch_with_playwright.          *)
(***************************************************************************)
\* fetch_url: the default of max_retries
DefaultMaxRetries == 3

\* what one httpx request can do: return the page, raise HTTPStatusError with status 403
\* or with another status, raise RequestError, raise another exception
HttpxOutcomes == {"ok", "403", "status", "request_error", "other"}

FetchInit ==
    /\ use_playwright \in BOOLEAN
    /\ max_retries \in 0..DefaultMaxRetries
    /\ retry_count = 0
    /\ fpc = "called"
    /\ attempts = <<>>
    /\ requests_end = ""
    /\ visited_urls = {}
    /\ CrawlIdle /\ UrlIdle /\ ChunkIdle /\ IndexIdle /\ OrchIdle /\ DownloadIdle /\ CleanIdle

\* fetch_url up to its first fetch; fetch_with_requests with max_retries 0 makes no
\* request and raises RuntimeError, which fetch_url answers with Playwright
CallFetch ==
    /\ fpc = "called"
    /\ fpc' = IF use_playwright \/ max_retries = 0 THEN "playwright" ELSE "requests"
    /\ requests_end' = IF ~use_playwright /\ max_retries = 0 THEN "RuntimeError" ELSE ""
    /\ UNCHANGED <<use_playwright, max_retries, retry_count, attempts, notFetchVars>>

\* fetch_url: where an exception of fetch_with_requests leads
after_requests_error(outcome) ==
    CASE outcome = "403" -> "playwright"
      [] outcome = "status" -> "raised"
      [] OTHER -> "playwright"

\* fetch_with_requests: one turn of the while loop, and what fetch_url does when the
\* function returns or raises
HttpxAttempt ==
    /\ fpc = "requests"
    /\ \E outcome \in HttpxOutcomes :
          /\ attempts' = Append(attempts, <<"httpx", outcome>>)
          /\ IF outcome = "ok"
             THEN fpc' = "returned" /\ retry_count' = retry_count /\ requests_end' = "ok"
             ELSE IF outcome \in {"403", "other"}
             THEN /\ fpc' = after_requests_error(outcome)
                  /\ retry_count' = retry_count
                  /\ requests_end' = outcome
             ELSE /\ retry_count' = retry_count + 1
                  /\ fpc' = IF retry_count + 1 >= max_retries
                            THEN after_requests_error(outcome) ELSE "requests"
                  /\ requests_end' = IF retry_count + 1 >= max_retries THEN outcome ELSE ""
    /\ UNCHANGED <<use_playwright, max_retries, notFetchVars>>

\* fetch_with_playwright: its result is the result of fetch_url
PlaywrightAttempt ==
    /\ fpc = "playwright"
    /\ \E outcome \in {"ok", "error"} :
          /\ attempts' = Append(attempts, <<"playwright", outcome>>)
          /\ fpc' = IF outcome = "ok" THEN "returned" ELSE "raised"
    /\ UNCHANGED <<use_playwright, max_retries, retry_count, requests_end, notFetchVars>>

FetchNext == CallFetch \/ HttpxAttempt \/ PlaywrightAttempt

FetchSpec == FetchInit /\ [][FetchNext]_vars

\* C20: when fetch_url raises, Playwright has been attempted.
PlaywrightBeforeError ==
    fpc = "raised" => \E i \in 1..Len(attempts) : attempts[i][1] = "playwright"

\* the outcomes of the httpx requests fetch_with_requests has made, in order
HttpxTries ==
    LET made == Pick(attempts, {i \in 1..Len(attempts) : attempts[i][1] = "httpx"})
    IN [i \in 1..Len(made) |-> made[i][2]]

\* C21: fetch_with_requests makes at most max_retries requests and none after a 403, and
\* it ends by returning the page or by raising the error of its last request.
RequestsBounded ==
    /\ Len(HttpxTries) <= max_retries
    /\ \A i \in 1..(Len(HttpxTries) - 1) : HttpxTries[i] # "403"
    /\ requests_end # "" =>
          HttpxTries # <<>> /\ requests_end = HttpxTries[Len(HttpxTries)]

\* the four conditions of the skip predicate that do not look at the common skips
SkipByVisitedPrefixOrPattern ==
    \/ url \in visited_urls
    \/ ~StartsWith(url, base_url)
    \/ \E i \in 1..Len(skip_patterns) : Contains(url, skip_patterns[i])

\* the URL ends with an anchor ("#" and what follows it) or with another common skip
EndsWithCommonSkip ==
    \/ Contains(url, <<"#">>)
    \/ \E i \in 2..Len(common_skips) : EndsWith(Lower(url), common_skips[i])

\* the URL, in lower case, holds a common skip anywhere
ContainsCommonSkip ==
    \E i \in 1..Len(common_skips) : Contains(Lower(url), common_skips[i])

\* C22 as claimed: should_skip(url) is true exactly when url is visited, or does not begin
\* with base_url, or contains a skip pattern, or ends with a common non-document suffix
\* compared case-insensitively.
SkipExactlyBySuffix ==
    upc = "checked" => (skipped <=> (SkipByVisitedPrefixOrPattern \/ EndsWithCommonSkip))

\* C22 amended: should_skip(url) is true exactly when url is visited, or does not begin with
\* base_url, or contains a skip pattern, or contains, in lower case, a common non-document
\* pattern anywhere as a substring.
SkipExactlyBySubstring ==
    upc = "checked" => (skipped <=> (SkipByVisitedPrefixOrPattern \/ ContainsCommonSkip))

\* should_skip has skipped a URL of the site for a common skip that is not at its end
SkippedForInnerCommonSkip ==
    /\ upc = "checked" /\ skipped
    /\ ~SkipByVisitedPrefixOrPattern
    /\ ~EndsWithCommonSkip

(***************************************************************************)
(* discover_urls runs over a site whose start URL and hrefs come in every  *)
(* form: absolute, root-relative and relative, with a trailing slash.      *)
(***************************************************************************)
\* href attributes with a trailing slash: root-relative, relative and absolute
SlashHrefs == << <<"/", "b", "/">>,
                 <<"b", "/">>,
                 Origin \o <<"/", "b", "/">> >>

SlashHrefLists ==
    {Pick(SlashHrefs, I) :
        I \in {J \in SUBSET (1..Len(SlashHrefs)) : Cardinality(J) <= MaxHrefs}}

SlashPages == [status : {"ok"}, hrefs : SlashHrefLists]
                 \cup [status : {"fetch_error", "no_container"}, hrefs : {<<>>}]

\* config["start_urls"]: one start URL, without or with a trailing slash
SlashStartUrlLists == { <<Xa>>, <<Xa \o <<"/">> >> }

AnyFormInit ==
    /\ visited_urls = {}
    /\ web \in [PageUrls -> SlashPages]
    /\ start_urls \in SlashStartUrlLists
    /\ max_depth \in 0..MaxDepth
    /\ pc = "discover"
    /\ seed = 1
    /\ all_urls = {} /\ to_visit = <<>> /\ call_fetches = <<>> /\ run_fetches = <<>>
    /\ section_urls = <<>> /\ discovered = {} /\ urls = <<>>
    /\ UrlIdle /\ ChunkIdle /\ RestIdle

AnyFormSpec == AnyFormInit /\ [][CrawlNext]_vars

\* C23: at every point of a traversal every URL of the visited set all_urls is canonical:
\* normalize_url leaves it unchanged, whatever form the start URL and the hrefs have.
VisitedCanonical == \A u \in all_urls : normalize_url(u, <<>>) = u

\* normalize_url has been called on an absolute URL
AbsoluteNormalized == upc \in {"normalized", "renormalized"} /\ StartsWith(url, HttpPrefix)

\* C24 as claimed: for an absolute URL normalize_url returns the URL without its fragment
\* (from the first "#") and without exactly one trailing slash, if one is present.
OneTrailingSlashRemoved == AbsoluteNormalized => once = RStripOne(Before(url, "#"), "/")

\* C24 amended: for an absolute URL normalize_url returns the URL without its fragment and
\* without all the slashes the remainder ends with: the result does not end with a slash,
\* and the URL up to its first "#" is the result followed by slashes only.
AllTrailingSlashesRemoved ==
    AbsoluteNormalized =>
        /\ ~EndsWith(once, <<"/">>)
        /\ StartsWith(Before(url, "#"), once)
        /\ \A i \in (Len(once) + 1)..Len(Before(url, "#")) : url[i] = "/"

\* normalize_url has been called on an absolute URL with two slashes before its end or
\* before its fragment
TwoTrailingSlashesNormalized ==
    AbsoluteNormalized /\ EndsWith(Before(url, "#"), <<"/", "/">>)

\* chunk_markdown has partitioned the document with _split_preserving_code_blocks
SpansSplit == cpc = "chunk_markdown" /\ preserve_code_blocks

\* the (text, is_code_block) spans of the document
Spans == split_preserving_code_blocks(markdown)

\* the number of fence lines of the document is odd: its last fence is never closed
LastFenceUnclosed == Cardinality({i \in 1..Len(markdown) : is_fence(markdown[i])}) % 2 = 1

HasFenceLine(text) == \E j \in 1..Len(text) : is_fence(text[j])

\* the span begins with an opening fence line and ends with a closing fence line
Fenced(text) == Len(text) >= 2 /\ is_fence(text[1]) /\ is_fence(text[Len(text)])

\* C25 as claimed: every span tagged as code begins with an opening fence line and ends
\* with a closing fence line, and no span tagged as prose contains a fence line, also
\* when the last fence of the input is never closed.
CodeSpansFenced ==
    SpansSplit =>
        \A k \in 1..Len(Spans) :
            IF Spans[k][2] THEN Fenced(Spans[k][1]) ELSE ~HasFenceLine(Spans[k][1])

\* C25 amended: no span tagged as prose contains a fence line; every span tagged as code
\* begins with an opening fence line, and it ends with a closing fence line unless it is
\* the last span of an input whose last fence is never closed: that span is tagged as
\* code, begins with the unclosed fence line and holds no other fence line.
CodeSpansFencedWhenClosed ==
    SpansSplit =>
        /\ \A k \in 1..Len(Spans) :
              IF ~Spans[k][2] THEN ~HasFenceLine(Spans[k][1])
              ELSE IF k = Len(Spans) /\ LastFenceUnclosed
              THEN is_fence(Spans[k][1][1]) /\ ~HasFenceLine(Tail(Spans[k][1]))
              ELSE Fenced(Spans[k][1])
        /\ LastFenceUnclosed => Spans # <<>> /\ Spans[Len(Spans)][2]

\* the document partitioned has prose, then a fence that is never closed with a line after it
UnclosedBlockSplit ==
    /\ SpansSplit
    /\ LastFenceUnclosed
    /\ Len(Spans) >= 2
    /\ ~Spans[1][2]
    /\ Len(Spans[Len(Spans)][1]) >= 2

\* "\n".join(lines): the text of a list of lines, as a string
JoinLines(lines) == Join(lines, "\n")

\* the texts of the spans, each "\n".join(current_text)
SpanTexts == [k \in 1..Len(Spans) |-> JoinLines(Spans[k][1])]

\* C26: joining the span texts of _split_preserving_code_blocks, in order, with a newline
\* reproduces the input markdown exactly.
PartitionLossless == SpansSplit => JoinLines(SpanTexts) = JoinLines(markdown)

\* the document partitioned has prose, a closed code block and prose after it
ProseCodeProseSplit ==
    /\ SpansSplit
    /\ Len(Spans) >= 3
    /\ ~Spans[1][2] /\ Spans[2][2] /\ ~Spans[3][2]

(***************************************************************************)
(* utils/markdown.py: clean_markdown on the markdown of one page, a string *)
(* with "\n" between its lines.  The documents of the model hold no URL    *)
(* and no link bracket, so that the two substitutions for repeated URLs    *)
(* and empty links match nowhere.                                          *)
(***************************************************************************)
MaxCleanLines == 3   \* lines of a markdown text given to clean_markdown

Newline == "\n"

MarkdownFence == Fence \o <<"m", "a", "r", "k", "d", "o", "w", "n">>

\* lines of the text: empty, blank, prose, bare fences, fences with a language, a fence
\* behind prose and a run of four backticks
CleanLineSet == {<<>>, <<" ">>, <<"w">>, Fence, Fence \o <<"w">>, MarkdownFence,
                 <<"w">> \o Fence, Fence \o <<"~">>}

CleanTexts == {JoinLines(lines) : lines \in SeqsUpTo(CleanLineSet, MaxCleanLines) \ {<<>>}}

\* re.sub(r"```markdown\n?", "", text)
RECURSIVE RemoveMarkdownFences(_)
RemoveMarkdownFences(s) ==
    IF s = <<>> THEN <<>>
    ELSE IF StartsWith(s, MarkdownFence)
    THEN LET rest == SubSeq(s, Len(MarkdownFence) + 1, Len(s))
         IN RemoveMarkdownFences(IF rest # <<>> /\ rest[1] = Newline THEN Tail(rest)
                                 ELSE rest)
    ELSE <<s[1]>> \o RemoveMarkdownFences(Tail(s))

\* "$" under re.MULTILINE: the end of the string or the place before a newline
AtLineEnd(rest) == rest = <<>> \/ rest[1] = Newline

\* re.sub(r"```\n?$", "", text, flags=re.MULTILINE): three backticks at the end of a line
\* are removed, together with the newline when an empty line or the end of the text follows
RECURSIVE RemoveLineEndFences(_)
RemoveLineEndFences(s) ==
    IF s = <<>> THEN <<>>
    ELSE IF StartsWith(s, Fence)
    THEN LET rest == SubSeq(s, Len(Fence) + 1, Len(s))
         IN IF rest # <<>> /\ rest[1] = Newline /\ AtLineEnd(Tail(rest))
            THEN RemoveLineEndFences(Tail(rest))
            ELSE IF AtLineEnd(rest) THEN RemoveLineEndFences(rest)
            ELSE <<s[1]>> \o RemoveLineEndFences(Tail(s))
    ELSE <<s[1]>> \o RemoveLineEndFences(Tail(s))

\* the number of backticks s begins with
RECURSIVE BacktickRun(_)
BacktickRun(s) == IF s # <<>> /\ s[1] = "~" THEN 1 + BacktickRun(Tail(s)) ELSE 0

\* re.sub(r"`{3,}", "```", text)
RECURSIVE CollapseBackticks(_)
CollapseBackticks(s) ==
    IF s = <<>> THEN <<>>
    ELSE IF BacktickRun(s) >= 3
    THEN Fence \o CollapseBackticks(SubSeq(s, BacktickRun(s) + 1, Len(s)))
    ELSE <<s[1]>> \o CollapseBackticks(Tail(s))

Whitespace == {" ", Newline}

\* line.rstrip() and text.strip() on strings
RStripWhitespace(s) == SubSeq(s, 1, Max({0} \cup {i \in 1..Len(s) : s[i] \notin Whitespace}))

StripWhitespace(s) ==
    SubSeq(s, Min({Len(s) + 1} \cup {i \in 1..Len(s) : s[i] \notin Whitespace}),
              Max({0} \cup {i \in 1..Len(s) : s[i] \notin Whitespace}))

\* clean_markdown: the loop that keeps at most two blank lines in a row
RECURSIVE KeepTwoBlanks(_, _)
KeepTwoBlanks(lines, blank_count) ==
    IF lines = <<>> THEN <<>>
    ELSE IF StripWhitespace(lines[1]) = <<>>
    THEN (IF blank_count + 1 <= 2 THEN <<lines[1]>> ELSE <<>>)
         \o KeepTwoBlanks(Tail(lines), blank_count + 1)
    ELSE <<lines[1]>> \o KeepTwoBlanks(Tail(lines), 0)

\* clean_markdown
clean_markdown(text) ==
    LET unfenced == CollapseBackticks(RemoveLineEndFences(RemoveMarkdownFences(text)))
        split == Split(unfenced, Newline)
        lines == [i \in 1..Len(split) |-> RStripWhitespace(split[i])]
    IN StripWhitespace(JoinLines(KeepTwoBlanks(lines, 0)))

CleanInit ==
    /\ md_text \in CleanTexts
    /\ md_cleaned = <<>>
    /\ mpc = "input"
    /\ visited_urls = {}
    /\ CrawlIdle /\ UrlIdle /\ ChunkIdle /\ IndexIdle /\ OrchIdle /\ DownloadIdle /\ FetchIdle

\* Parser._parse_file: html_to_markdown ends with markdown = clean_markdown(markdown)
CallCleanMarkdown ==
    /\ mpc = "input"
    /\ md_cleaned' = clean_markdown(md_text)
    /\ mpc' = "cleaned"
    /\ UNCHANGED <<md_text, notCleanVars>>

CleanNext == CallCleanMarkdown

CleanSpec == CleanInit /\ [][CleanNext]_vars

\* the fence lines the chunker finds in a text: the lines that begin with three backticks
FenceLinesOf(text) ==
    LET lines == Split(text, Newline) IN {i \in 1..Len(lines) : is_fence(lines[i])}

\* every fence the chunker opens in the text is closed
FencesBalanced(text) == Cardinality(FenceLinesOf(text)) % 2 = 0

\* C27: for markdown with balanced code fences the output of clean_markdown has balanced
\* fences too: no closing fence line is removed while its opening fence line is kept.
CleanKeepsFencesBalanced ==
    (mpc = "cleaned" /\ FencesBalanced(md_text)) => FencesBalanced(md_cleaned)

\* the URLs within max_depth links of at least one of the first n start URLs: what one
\* breadth-first traversal finds whose queue starts with these seeds at depth 0
WithinOfSeeds(n) == UNION {Within(start_urls[i], max_depth) : i \in 1..n}

\* C28: the union of the crawl_recursively results over the start URLs is the set of the
\* URLs within max_depth links of at least one seed: after every call for the seeds
\* crawled so far, and for all seeds when the loop of discover_urls is over.
UnionOfSeedTraversals ==
    /\ pc \in {"discover", "done"} => discovered = WithinOfSeeds(seed - 1)
    /\ pc = "done" => discovered = WithinOfSeeds(Len(start_urls))

\* discover_urls is over for two seeds whose traversals share a URL and have each a URL
\* the other has not
OverlappingSeedsCrawled ==
    /\ pc = "done" /\ Len(start_urls) = 2
    /\ Within(start_urls[1], max_depth) \cap Within(start_urls[2], max_depth) # {}
    /\ Within(start_urls[1], max_depth) \ Within(start_urls[2], max_depth) # {}
    /\ Within(start_urls[2], max_depth) \ Within(start_urls[1], max_depth) # {}

\* C29: the list filter_urls returns holds no URL twice, and every URL u of it satisfies
\* should_skip(u) = false and normalize_url(u) = u, for any input list.
FilteredCanonical ==
    upc = "filtered" =>
        /\ \A i, j \in 1..Len(filtered) : filtered[i] = filtered[j] => i = j
        /\ \A i \in 1..Len(filtered) :
              /\ ~should_skip(filtered[i], visited_urls)
              /\ normalize_url(filtered[i], <<>>) = filtered[i]

\* the places of the events of one kind in stage_events
EventsOf(kind) == {i \in 1..Len(stage_events) : stage_events[i][1] = kind}

\* C30: stages run strictly in sequence.  In Crawler.crawl every discovery comes before
\* every download and the first download comes when all requested frameworks have been
\* discovered; the report is written after the downloads of all discovered frameworks.
\* In the full pipeline a stage starts right after the stage before it has returned.
StagesInSequence ==
    /\ \A i \in EventsOf("discover"), j \in EventsOf("download") : i < j
    /\ EventsOf("download") # {} => Cardinality(EventsOf("discover")) = Len(frameworks)
    /\ \A r \in EventsOf("report") :
          /\ \A j \in EventsOf("download") : j < r
          /\ Cardinality(EventsOf("download")) = Len(crawl_urls_of)
          /\ {stage_events[j][2] : j \in EventsOf("download")}
                = {crawl_urls_of[k][1] : k \in 1..Len(crawl_urls_of)}
    /\ \A i \in EventsOf("start") :
          \A k \in 2..Len(Stages) :
              stage_events[i][2] = Stages[k] =>
                  i > 1 /\ stage_events[i - 1] = <<"return", Stages[k - 1]>>

\* the whole pipeline has run after a crawl of two frameworks
PipelineComplete ==
    /\ stage_events # <<>> /\ LastEvent = <<"return", "index">>
    /\ Cardinality(EventsOf("download")) >= 2

====
